---- MODULE Spec2Model ----
(***************************************************************************)
(* Model of the heart-rate monitor session (src/src/core.rs) and of its    *)
(* consumer (src/src/main.rs).                                             *)
(*                                                                         *)
(* The background task spawned by start_monitoring is a process whose      *)
(* position pc walks the statements of connect_and_monitor; every await on *)
(* the transport is one action whose outcome (success, error) is chosen by *)
(* the transport.  The output channel is the tokio mpsc channel of line    *)
(* 45: a FIFO with a sending half owned by the task and a receiving half   *)
(* owned by the consumer.                                                  *)
(***************************************************************************)
EXTENDS Integers, Sequences, FiniteSets, TLC

\* ------------------------------------------------------------------ bounds

\* Transport failures (errors, absent device, absent characteristic) the
\* environment may inject in one run of Spec.
MaxFail == 2
\* Notifications the transport may deliver in one run of Spec.
MaxNotif == 2
\* The same two budgets for the runs of FairSpec.
FairMaxFail == 1
FairMaxNotif == 2
\* Longest payload handed to the decoder in DecSpec.
MaxLen == 3
\* CapSpec starts with the channel CapSlack values short of full, and the
\* transport may deliver CapNotif more notifications.
CapSlack == 2
CapNotif == 4
\* Most peripherals one enumeration returns in AddrSpec, and the budgets of
\* failures and notifications of its runs.
MaxSeen == 2
AddrMaxFail == 1
AddrMaxNotif == 1
\* Longest allow-list, and most peripherals one enumeration returns, in
\* FactorySpec.
MaxNames == 2
MaxDiscovered == 2

\* ------------------------------------------------------- program constants

SUPPORT_DEVICES == <<"Xiaomi Smart Band 9 082F">>
HeartRateUuid == "00002a37-0000-1000-8000-00805f9b34fb"
\* Any characteristic identifier other than the heart-rate one.
OtherUuid == "00002a38-0000-1000-8000-00805f9b34fb"
\* mpsc::channel(100)
Capacity == 100
\* time::sleep(Duration::from_secs(5)) after start_scan
ScanWindow == 5
\* time::sleep(Duration::from_secs(5)) after a failed cycle
Backoff == 5

\* --------------------------------------------------------------- decoder

\* Byte values the decoder is exercised on in DecSpec.
SampleBytes == {0, 1, 2, 44, 255}

SeqsUpTo(S, n) == UNION {[1..k -> S] : k \in 0..n}

\* Flags bytes with bit 0 clear, and every value of a u8.
EvenFlags == {0, 2, 254}
Byte == 0..255

\* The payloads of DecSpec: every sequence of at most MaxLen sample bytes, and
\* every 2-byte payload whose flags byte has bit 0 clear.
DecPayloads ==
    SeqsUpTo(SampleBytes, MaxLen) \cup {<<f, v>> : f \in EvenFlags, v \in Byte}

Decoded(v) == [panic |-> FALSE, value |-> v]
\* An index past the end of the slice: the thread panics.
Panicked == [panic |-> TRUE, value |-> 0]

\* A plausible slip: the two bytes read in big-endian order.
BeU16AsU8(lo, hi) == ((lo * 256 + hi) % 65536) % 256

\* u16::from_le_bytes([lo, hi]) as u8
LeU16AsU8(lo, hi) == ((hi * 256 + lo) % 65536) % 256

\* A plausible slip: the whole flags byte compared with 0 instead of its bit 0.
parse_heart_rate_flags_zero(data) ==
    IF Len(data) >= 2
    THEN IF data[1] = 0
         THEN Decoded(data[2])
         ELSE IF Len(data) >= 3
              THEN Decoded(LeU16AsU8(data[2], data[3]))
              ELSE Panicked
    ELSE Decoded(0)

\* A plausible slip: the length test off by one (data.len() >= 1).
parse_heart_rate_off_by_one(data) ==
    IF Len(data) >= 1
    THEN IF data[1] % 2 = 0
         THEN IF Len(data) >= 2 THEN Decoded(data[2]) ELSE Panicked
         ELSE IF Len(data) >= 3
              THEN Decoded(LeU16AsU8(data[2], data[3]))
              ELSE Panicked
    ELSE Decoded(0)

\* data is a sequence of bytes; data[0] of the source is data[1] here.
parse_heart_rate(data) ==
    IF Len(data) >= 2
    THEN IF data[1] % 2 = 0
         THEN Decoded(data[2])
         ELSE IF Len(data) >= 3
              THEN Decoded(LeU16AsU8(data[2], data[3]))
              ELSE Panicked
    ELSE Decoded(0)

\* ----------------------------------------------------------------- state

VARIABLES
    pc,           \* position of the background task
    cycle,        \* invocations of connect_and_monitor so far
    result,       \* what the last finished invocation returned
    connOpen,     \* a connect() succeeded and no disconnect() has undone it
    subscribed,   \* this cycle's subscribe() returned Ok
    stream,       \* notifications buffered in this cycle's notification stream
    streamEnded,  \* the transport has ended this cycle's stream
    value,        \* the decoded value being sent
    chan,         \* values queued in the channel
    rxOpen,       \* the consumer still holds the receiving half
    senderAlive,  \* the task still holds the sending half
    received,     \* values the consumer has taken (and printed), in order
    rxDone,       \* the consumer's recv() returned None
    closedAt,     \* what the task was doing when the consumer dropped the receiver
    errs,         \* errors reported to the sink, in order
    matched,      \* payloads of the heart-rate notifications taken off the stream
    nPushed,      \* successful sends
    nScan,        \* start_scan() calls issued
    nConnect,     \* connect() calls issued
    nSubscribe,   \* subscribe() calls issued
    nDisconnect,  \* disconnect() calls issued
    nBackoff,     \* backoff sleeps performed
    slept,        \* time units the task has slept
    brk,          \* counters at the first break on a closed channel
    failBudget,   \* failures the transport may still inject
    notifBudget,  \* notifications the transport may still deliver
    device_address, \* the address the session is bound to
    visible,      \* the peripheral lists the adapter may enumerate
    seen,         \* the peripherals enumerated last
    device,       \* the peripheral found in this cycle
    touched,      \* addresses connect, subscribe or disconnect were issued on
    support_devices, \* the allow-list detect_monitor iterates
    fpc,          \* position of detect_monitor and of its get_device_address
    idx,          \* index of the candidate name of the current iteration
    discovered,   \* peripherals enumerated by this get_device_address
    j,            \* index of the peripheral of the current for-iteration
    scanning,     \* a start_scan of get_device_address has not been stopped
    lres,         \* what the last get_device_address returned
    dres,         \* what detect_monitor returned
    flog,         \* failed candidates reported to the sink, in order
    located,      \* names get_device_address was called with, in order
    acquired      \* names detect_monitor acquired an adapter for, in order

taskVars == <<pc, cycle, result, value>>
linkVars == <<connOpen, subscribed, stream, streamEnded>>
chanVars == <<chan, rxOpen, senderAlive, received, rxDone, closedAt>>
histVars == <<errs, matched, nPushed, nScan, nConnect, nSubscribe, nDisconnect,
              nBackoff, slept, brk>>
envVars == <<failBudget, notifBudget>>
addrVars == <<device_address, visible, seen, device, touched>>
factVars == <<support_devices, fpc, idx, discovered, j, scanning, lres, dres,
              flog, located, acquired>>
vars == <<taskVars, linkVars, chanVars, histVars, envVars, addrVars, factVars>>

NoResult == [kind |-> "none", at |-> "none"]
OkResult == [kind |-> "Ok", at |-> "disconnect"]
Err(kind, at) == [kind |-> kind, at |-> at]
NoBrk == [cycle |-> 0, nScan |-> 0, nDisconnect |-> 0, errs |-> 0]

\* Payloads the transport delivers in the session runs: an 8-bit reading, a
\* 16-bit reading, and a 16-bit flag on a 2-byte payload.
SessionPayloads == {<<0, 72>>, <<1, 44, 1>>, <<1, 44>>}

Notification(uuid, payload) == [uuid |-> uuid, value |-> payload]

SessionNotifications ==
    {Notification(HeartRateUuid, p) : p \in SessionPayloads}
        \cup {Notification(OtherUuid, <<0, 99>>)}

\* A discovered peripheral: its address and what its properties advertise.
Peripheral(address, local_name) == [address |-> address, local_name |-> local_name]
\* properties() yields None
NoProperties == "<no properties>"
\* properties() yields Some(props) with props.local_name = None
NoLocalName == "<no local name>"
NoDevice == Peripheral("none", NoProperties)

\* The session runs are bound to this address, and the scan shows the
\* peripheral with it or nothing.
SessionAddress == "A1"
SessionVisible == {<<Peripheral(SessionAddress, "X")>>, <<>>}

\* .into_iter().find(|p| p.address().to_string() == a)
HasAddress(ps, a) == \E i \in 1..Len(ps) : ps[i].address = a
FindAddress(ps, a) ==
    ps[CHOOSE i \in 1..Len(ps) :
          /\ ps[i].address = a
          /\ \A k \in 1..(i - 1) : ps[k].address # a]

\* Ok(monitor) of detect_monitor.
MonitorReturned == [kind |-> "Ok", at |-> "detect"]

\* Result<String, Error> of get_device_address.
Located(a) == [kind |-> "Ok", address |-> a]
NotLocated(kind) == [kind |-> kind, address |-> "none"]
NoLocate == NotLocated("none")

\* detect_monitor has returned the session bound to address a, having located
\* the one name of its allow-list at the first peripheral enumerated.
DetectReturned(a) ==
    /\ support_devices = <<"X">>
    /\ fpc = "returned"
    /\ idx = 1
    /\ discovered = <<Peripheral(a, "X")>>
    /\ j = 1
    /\ scanning = FALSE
    /\ lres = Located(a)
    /\ dres = MonitorReturned
    /\ flog = <<>>
    /\ located = <<"X">>
    /\ acquired = <<"X">>

TaskEnded == pc \in {"done", "panicked"}

InitWith(fails, notifs) ==
    /\ pc = "start_scan"
    /\ cycle = 1
    /\ result = NoResult
    /\ connOpen = FALSE
    /\ subscribed = FALSE
    /\ stream = <<>>
    /\ streamEnded = FALSE
    /\ value = 0
    /\ chan = <<>>
    /\ rxOpen = TRUE
    /\ senderAlive = TRUE
    /\ received = <<>>
    /\ rxDone = FALSE
    /\ closedAt = "open"
    /\ errs = <<>>
    /\ matched = <<>>
    /\ nPushed = 0
    /\ nScan = 0
    /\ nConnect = 0
    /\ nSubscribe = 0
    /\ nDisconnect = 0
    /\ nBackoff = 0
    /\ slept = 0
    /\ brk = NoBrk
    /\ failBudget = fails
    /\ notifBudget = notifs
    /\ device_address = SessionAddress
    /\ DetectReturned(SessionAddress)
    /\ visible = SessionVisible
    /\ seen = <<>>
    /\ device = NoDevice
    /\ touched = {}

Init == InitWith(MaxFail, MaxNotif)

\* ------------------------------------------------- connect_and_monitor

\* The `?` on a failed step: connect_and_monitor returns Err to the loop.
Raise(kind, at) ==
    /\ failBudget > 0
    /\ failBudget' = failBudget - 1
    /\ result' = Err(kind, at)
    /\ pc' = "match"
    /\ UNCHANGED <<cycle, value, notifBudget>>

Proceed(to) ==
    /\ pc' = to
    /\ UNCHANGED <<cycle, result, value, envVars>>

\* adapter.start_scan(Default::default()).await?
StartScan ==
    /\ pc = "start_scan"
    /\ nScan' = nScan + 1
    /\ \/ Proceed("scan_sleep")
       \/ Raise("Bluetooth", "start_scan")
    /\ UNCHANGED <<linkVars, chanVars, errs, matched, nPushed, nConnect,
                   nSubscribe, nDisconnect, nBackoff, slept, brk>>
    /\ UNCHANGED addrVars
    /\ UNCHANGED factVars

\* time::sleep(Duration::from_secs(5)).await
ScanSleep ==
    /\ pc = "scan_sleep"
    /\ slept' = slept + ScanWindow
    /\ Proceed("peripherals")
    /\ UNCHANGED <<linkVars, chanVars, errs, matched, nPushed, nScan, nConnect,
                   nSubscribe, nDisconnect, nBackoff, brk>>
    /\ UNCHANGED addrVars
    /\ UNCHANGED factVars

\* A plausible slip: the first enumerated peripheral is taken, whatever its
\* address.
FindDeviceTakesFirst ==
    /\ pc = "peripherals"
    /\ \/ \E ps \in visible :
            /\ seen' = ps
            /\ IF ps # <<>>
               THEN device' = ps[1] /\ Proceed("connect")
               ELSE Raise("DeviceNotFound", "find_device") /\ UNCHANGED device
       \/ Raise("Bluetooth", "peripherals") /\ UNCHANGED <<seen, device>>
    /\ UNCHANGED <<device_address, visible, touched, linkVars, chanVars,
                   histVars>>
    /\ UNCHANGED factVars

\* adapter.peripherals().await?, then
\* .find(|p| p.address().to_string() == device_address).ok_or(DeviceNotFound)?
\* The adapter enumerates one of the lists it can; the peripheral with the
\* bound address is among those enumerated, or not.
FindDevice ==
    /\ pc = "peripherals"
    /\ \/ \E ps \in visible :
            /\ seen' = ps
            /\ IF HasAddress(ps, device_address)
               THEN device' = FindAddress(ps, device_address) /\ Proceed("connect")
               ELSE Raise("DeviceNotFound", "find_device") /\ UNCHANGED device
       \/ Raise("Bluetooth", "peripherals") /\ UNCHANGED <<seen, device>>
    /\ UNCHANGED <<device_address, visible, touched, linkVars, chanVars,
                   histVars>>
    /\ UNCHANGED factVars

\* device.connect().await?
Connect ==
    /\ pc = "connect"
    /\ nConnect' = nConnect + 1
    /\ \/ Proceed("discover_services") /\ connOpen' = TRUE
       \/ Raise("Bluetooth", "connect") /\ UNCHANGED connOpen
    /\ UNCHANGED <<subscribed, stream, streamEnded, chanVars, errs, matched,
                   nPushed, nScan, nSubscribe, nDisconnect, nBackoff, slept, brk>>
    /\ touched' = touched \cup {device.address}
    /\ UNCHANGED <<device_address, visible, seen, device>>
    /\ UNCHANGED factVars

\* device.discover_services().await?, then
\* .find(|c| c.uuid == heart_rate_uuid).ok_or(CharacteristicNotFound)?
\* The peripheral exposes the heart-rate characteristic, or not.
FindChar ==
    /\ pc = "discover_services"
    /\ \/ Proceed("subscribe")
       \/ Raise("Bluetooth", "discover_services")
       \/ Raise("CharacteristicNotFound", "find_char")
    /\ UNCHANGED <<linkVars, chanVars, histVars>>
    /\ UNCHANGED addrVars
    /\ UNCHANGED factVars

\* device.subscribe(&hr_char).await?
Subscribe ==
    /\ pc = "subscribe"
    /\ nSubscribe' = nSubscribe + 1
    /\ \/ Proceed("notifications") /\ subscribed' = TRUE
       \/ Raise("Bluetooth", "subscribe") /\ UNCHANGED subscribed
    /\ UNCHANGED <<connOpen, stream, streamEnded, chanVars, errs, matched,
                   nPushed, nScan, nConnect, nDisconnect, nBackoff, slept, brk>>
    /\ touched' = touched \cup {device.address}
    /\ UNCHANGED <<device_address, visible, seen, device>>
    /\ UNCHANGED factVars

\* let mut notification_stream = device.notifications().await?
Notifications ==
    /\ pc = "notifications"
    /\ \/ Proceed("next") /\ stream' = <<>> /\ streamEnded' = FALSE
       \/ Raise("Bluetooth", "notifications") /\ UNCHANGED <<stream, streamEnded>>
    /\ UNCHANGED <<connOpen, subscribed, chanVars, histVars>>
    /\ UNCHANGED addrVars
    /\ UNCHANGED factVars

\* Some(data) = notification_stream.next().await, then lines 95-96: the
\* identifier test and the decoding.  A panic of the decoder unwinds the task,
\* which drops the sending half.
NextSome ==
    /\ pc = "next"
    /\ stream # <<>>
    /\ stream' = Tail(stream)
    /\ IF Head(stream).uuid = HeartRateUuid
       THEN /\ matched' = Append(matched, Head(stream).value)
            /\ IF parse_heart_rate(Head(stream).value).panic
               THEN /\ pc' = "panicked"
                    /\ senderAlive' = FALSE
                    /\ UNCHANGED value
               ELSE /\ pc' = "send"
                    /\ value' = parse_heart_rate(Head(stream).value).value
                    /\ UNCHANGED senderAlive
       ELSE /\ pc' = "next"
            /\ UNCHANGED <<matched, value, senderAlive>>
    /\ UNCHANGED <<cycle, result, connOpen, subscribed, streamEnded, chan, rxOpen,
                   received, rxDone, closedAt, errs, nPushed, nScan, nConnect,
                   nSubscribe, nDisconnect, nBackoff, slept, brk, envVars>>
    /\ UNCHANGED addrVars
    /\ UNCHANGED factVars

\* notification_stream.next().await yields None: the while loop ends.  The
\* stream is a local of connect_and_monitor and is not read again.
NextNone ==
    /\ pc = "next"
    /\ stream = <<>>
    /\ streamEnded
    /\ pc' = "disconnect"
    /\ UNCHANGED <<cycle, result, value, linkVars, chanVars, histVars, envVars>>
    /\ UNCHANGED addrVars
    /\ UNCHANGED factVars

\* A plausible slip: try_send in place of send, so that a value that finds the
\* channel full is dropped and the loop goes on.
SendOkTrySend ==
    /\ pc = "send"
    /\ rxOpen
    /\ IF Len(chan) < Capacity
       THEN chan' = Append(chan, value) /\ nPushed' = nPushed + 1
       ELSE UNCHANGED <<chan, nPushed>>
    /\ pc' = "next"
    /\ UNCHANGED <<cycle, result, value, linkVars, rxOpen, senderAlive, received,
                   rxDone, closedAt, errs, matched, nScan, nConnect, nSubscribe,
                   nDisconnect, nBackoff, slept, brk, envVars>>
    /\ UNCHANGED addrVars
    /\ UNCHANGED factVars

\* sender.send(value).await returns Ok: the value is queued.  The send waits
\* while the channel is full.
SendOk ==
    /\ pc = "send"
    /\ rxOpen
    /\ Len(chan) < Capacity
    /\ chan' = Append(chan, value)
    /\ nPushed' = nPushed + 1
    /\ pc' = "next"
    /\ UNCHANGED <<cycle, result, value, linkVars, rxOpen, senderAlive, received,
                   rxDone, closedAt, errs, matched, nScan, nConnect, nSubscribe,
                   nDisconnect, nBackoff, slept, brk, envVars>>
    /\ UNCHANGED addrVars
    /\ UNCHANGED factVars

BrkNow ==
    IF brk = NoBrk
    THEN [cycle |-> cycle, nScan |-> nScan, nDisconnect |-> nDisconnect,
          errs |-> Len(errs)]
    ELSE brk

\* A plausible slip: the failed send is ignored and the loop goes on.
SendClosedContinues ==
    /\ pc = "send"
    /\ ~rxOpen
    /\ pc' = "next"
    /\ brk' = BrkNow
    /\ UNCHANGED <<cycle, result, value, linkVars, chanVars, errs, matched,
                   nPushed, nScan, nConnect, nSubscribe, nDisconnect, nBackoff,
                   slept, envVars>>
    /\ UNCHANGED addrVars
    /\ UNCHANGED factVars

\* A plausible slip: `return Ok(())` in place of `break`, skipping disconnect.
SendClosedReturns ==
    /\ pc = "send"
    /\ ~rxOpen
    /\ pc' = "match"
    /\ result' = OkResult
    /\ brk' = BrkNow
    /\ stream' = <<>>
    /\ UNCHANGED <<cycle, value, connOpen, subscribed, streamEnded, chanVars,
                   errs, matched, nPushed, nScan, nConnect, nSubscribe,
                   nDisconnect, nBackoff, slept, envVars>>
    /\ UNCHANGED addrVars
    /\ UNCHANGED factVars

\* sender.send(value).await.is_err(): break // Receiver closed
SendClosed ==
    /\ pc = "send"
    /\ ~rxOpen
    /\ pc' = "disconnect"
    /\ brk' = BrkNow
    /\ stream' = <<>>
    /\ UNCHANGED <<cycle, result, value, connOpen, subscribed, streamEnded,
                   chanVars, errs, matched, nPushed, nScan, nConnect, nSubscribe,
                   nDisconnect, nBackoff, slept, envVars>>
    /\ UNCHANGED addrVars
    /\ UNCHANGED factVars

\* device.disconnect().await?; Ok(())
\* After a failed disconnect the transport may or may not have dropped the link.
Disconnect ==
    /\ pc = "disconnect"
    /\ nDisconnect' = nDisconnect + 1
    /\ \/ /\ pc' = "match"
          /\ result' = OkResult
          /\ connOpen' = FALSE
          /\ UNCHANGED <<cycle, value, envVars>>
       \/ /\ Raise("Bluetooth", "disconnect")
          /\ connOpen' \in BOOLEAN
    /\ stream' = <<>>
    /\ UNCHANGED <<subscribed, streamEnded, chanVars, errs, matched, nPushed,
                   nScan, nConnect, nSubscribe, nBackoff, slept, brk>>
    /\ touched' = touched \cup {device.address}
    /\ UNCHANGED <<device_address, visible, seen, device>>
    /\ UNCHANGED factVars

\* ---------------------------------------------------- start_monitoring

\* A plausible slip: the loop restarts after a clean cycle too.
MatchOkContinues ==
    /\ pc = "match"
    /\ result.kind = "Ok"
    /\ pc' = "start_scan"
    /\ cycle' = cycle + 1
    /\ UNCHANGED <<result, value, linkVars, chanVars, histVars, envVars>>
    /\ UNCHANGED addrVars
    /\ UNCHANGED factVars

\* A plausible slip: a clone of the sending half kept alive outside the task,
\* so that the end of the task does not close the channel.
MatchOkKeepsSender ==
    /\ pc = "match"
    /\ result.kind = "Ok"
    /\ pc' = "done"
    /\ UNCHANGED <<cycle, result, value, linkVars, chanVars, histVars, envVars>>
    /\ UNCHANGED addrVars
    /\ UNCHANGED factVars

\* Ok(_) => break: the task ends and its sending half is dropped.
MatchOk ==
    /\ pc = "match"
    /\ result.kind = "Ok"
    /\ pc' = "done"
    /\ senderAlive' = FALSE
    /\ UNCHANGED <<cycle, result, value, linkVars, chan, rxOpen, received, rxDone,
                   closedAt, histVars, envVars>>
    /\ UNCHANGED addrVars
    /\ UNCHANGED factVars

\* A plausible slip: a retry limit, the task giving up at the second error.
MatchErrGivesUp ==
    /\ pc = "match"
    /\ result.kind # "Ok"
    /\ errs' = Append(errs, result)
    /\ IF Len(errs) >= 1
       THEN /\ pc' = "done"
            /\ senderAlive' = FALSE
            /\ UNCHANGED <<cycle, subscribed, slept, nBackoff>>
       ELSE /\ pc' = "start_scan"
            /\ slept' = slept + Backoff
            /\ nBackoff' = nBackoff + 1
            /\ cycle' = cycle + 1
            /\ subscribed' = FALSE
            /\ UNCHANGED senderAlive
    /\ UNCHANGED <<result, value, connOpen, stream, streamEnded, chan, rxOpen,
                   received, rxDone, closedAt, matched, nPushed, nScan, nConnect,
                   nSubscribe, nDisconnect, brk, envVars>>
    /\ UNCHANGED addrVars
    /\ UNCHANGED factVars

\* A plausible slip: the sending half handed to the cycle by value, and so
\* dropped when the cycle returns.
MatchErrDropsSender ==
    /\ pc = "match"
    /\ result.kind # "Ok"
    /\ errs' = Append(errs, result)
    /\ slept' = slept + Backoff
    /\ nBackoff' = nBackoff + 1
    /\ pc' = "start_scan"
    /\ cycle' = cycle + 1
    /\ subscribed' = FALSE
    /\ senderAlive' = FALSE
    /\ UNCHANGED <<result, value, connOpen, stream, streamEnded, chan, rxOpen,
                   received, rxDone, closedAt, matched, nPushed, nScan, nConnect,
                   nSubscribe, nDisconnect, brk, envVars>>
    /\ UNCHANGED addrVars
    /\ UNCHANGED factVars

\* A plausible slip: the retry without the sleep.
MatchErrNoSleep ==
    /\ pc = "match"
    /\ result.kind # "Ok"
    /\ errs' = Append(errs, result)
    /\ pc' = "start_scan"
    /\ cycle' = cycle + 1
    /\ subscribed' = FALSE
    /\ UNCHANGED <<result, value, connOpen, stream, streamEnded, chanVars,
                   matched, nPushed, nScan, nConnect, nSubscribe, nDisconnect,
                   nBackoff, slept, brk, envVars>>
    /\ UNCHANGED addrVars
    /\ UNCHANGED factVars

\* Err(e) => { eprintln!("Monitoring error: {e}");
\*             time::sleep(Duration::from_secs(5)).await; }
\* and the next iteration of the loop.
MatchErr ==
    /\ pc = "match"
    /\ result.kind # "Ok"
    /\ errs' = Append(errs, result)
    /\ slept' = slept + Backoff
    /\ nBackoff' = nBackoff + 1
    /\ pc' = "start_scan"
    /\ cycle' = cycle + 1
    /\ subscribed' = FALSE
    /\ UNCHANGED <<result, value, connOpen, stream, streamEnded, chanVars,
                   matched, nPushed, nScan, nConnect, nSubscribe, nDisconnect,
                   brk, envVars>>
    /\ UNCHANGED addrVars
    /\ UNCHANGED factVars

\* The steps of the background task.
Task ==
    \/ StartScan
    \/ ScanSleep
    \/ FindDevice
    \/ Connect
    \/ FindChar
    \/ Subscribe
    \/ Notifications
    \/ NextSome
    \/ NextNone
    \/ SendOk
    \/ SendClosed
    \/ Disconnect
    \/ MatchOk
    \/ MatchErr

\* ------------------------------------------------------------ transport

\* The stream exists from notifications() until the while loop is left.
Streaming == pc \in {"next", "send"}

\* The peripheral notifies: one more item of the notification stream.
Deliver(n) ==
    /\ Streaming
    /\ ~streamEnded
    /\ notifBudget > 0
    /\ notifBudget' = notifBudget - 1
    /\ stream' = Append(stream, n)
    /\ UNCHANGED <<taskVars, connOpen, subscribed, streamEnded, chanVars,
                   histVars, failBudget>>
    /\ UNCHANGED addrVars
    /\ UNCHANGED factVars

\* The notification stream ends (the peripheral went away).
StreamEnd ==
    /\ Streaming
    /\ ~streamEnded
    /\ streamEnded' = TRUE
    /\ UNCHANGED <<taskVars, connOpen, subscribed, stream, chanVars, histVars,
                   envVars>>
    /\ UNCHANGED addrVars
    /\ UNCHANGED factVars

Transport ==
    \/ \E n \in SessionNotifications : Deliver(n)
    \/ StreamEnd

\* ------------------------------------------------------------- consumer

\* receiver.recv().await returns Some(hr); println!("{hr}")
Recv ==
    /\ rxOpen
    /\ ~rxDone
    /\ chan # <<>>
    /\ received' = Append(received, Head(chan))
    /\ chan' = Tail(chan)
    /\ UNCHANGED <<taskVars, linkVars, rxOpen, senderAlive, rxDone, closedAt,
                   histVars, envVars>>
    /\ UNCHANGED addrVars
    /\ UNCHANGED factVars

\* receiver.recv().await returns None: every sender is gone and the queue is
\* empty; the while loop of main ends.
RecvNone ==
    /\ rxOpen
    /\ ~rxDone
    /\ chan = <<>>
    /\ ~senderAlive
    /\ rxDone' = TRUE
    /\ UNCHANGED <<taskVars, linkVars, chan, rxOpen, senderAlive, received,
                   closedAt, histVars, envVars>>
    /\ UNCHANGED addrVars
    /\ UNCHANGED factVars

\* The caller drops the Receiver returned by start_monitoring: the channel is
\* closed and the values still queued are discarded.
DropReceiver ==
    /\ rxOpen
    /\ ~rxDone
    /\ rxOpen' = FALSE
    /\ chan' = <<>>
    /\ closedAt' = IF Streaming THEN "streaming" ELSE "elsewhere"
    /\ UNCHANGED <<taskVars, linkVars, senderAlive, received, rxDone, histVars,
                   envVars>>
    /\ UNCHANGED addrVars
    /\ UNCHANGED factVars

Consumer ==
    \/ Recv
    \/ RecvNone
    \/ DropReceiver

\* ------------------------------------------------- get_device_address

\* The allow-lists detect_monitor is run on: SUPPORT_DEVICES and every list of
\* at most MaxNames candidate names.  The peripherals in range: two named X,
\* one named Y, one named x, one without a name and one without properties;
\* a scan enumerates any list of at most MaxDiscovered of them.
CandidateNames == {"X", "Y"}
AllowLists ==
    {SUPPORT_DEVICES} \cup (SeqsUpTo(CandidateNames, MaxNames) \ {<<>>})
FactPeripherals ==
    {Peripheral("A1", "X"), Peripheral("A2", "X"), Peripheral("A3", "Y"),
     Peripheral("A4", "x"), Peripheral("A5", NoLocalName),
     Peripheral("A6", NoProperties)}
Discoverable == SeqsUpTo(FactPeripherals, MaxDiscovered)

\* Everything of the session but the address it is bound to.
sessVars == <<taskVars, linkVars, chanVars, histVars, envVars, visible, seen,
              device, touched>>

\* device_name of the current iteration of detect_monitor.
device_name == support_devices[idx]

\* get_device_address returns r to the match of detect_monitor.  discovered
\* and j keep their last values until detect_monitor has taken the result.
LocReturn(r) ==
    /\ lres' = r
    /\ located' = Append(located, [name |-> device_name, result |-> r])
    /\ fpc' = "match"

LocProceed(to) ==
    /\ fpc' = to
    /\ UNCHANGED <<lres, located>>

\* let manager = Manager::new().await?
LocManager ==
    /\ fpc = "loc_manager"
    /\ \/ LocProceed("loc_adapters")
       \/ LocReturn(NotLocated("Bluetooth"))
    /\ UNCHANGED <<support_devices, idx, discovered, j, scanning, dres, flog,
                   acquired>>
    /\ UNCHANGED <<sessVars, device_address>>

\* manager.adapters().await?, then .into_iter().next()
\*     .ok_or(Error::BluetoothAdaptersNotFound)?
LocAdapters ==
    /\ fpc = "loc_adapters"
    /\ \/ LocProceed("loc_start_scan")
       \/ LocReturn(NotLocated("Bluetooth"))
       \/ LocReturn(NotLocated("BluetoothAdaptersNotFound"))
    /\ UNCHANGED <<support_devices, idx, discovered, j, scanning, dres, flog,
                   acquired>>
    /\ UNCHANGED <<sessVars, device_address>>

\* adapter.start_scan(Default::default()).await?
LocStartScan ==
    /\ fpc = "loc_start_scan"
    /\ \/ LocProceed("loc_sleep") /\ scanning' = TRUE
       \/ LocReturn(NotLocated("Bluetooth")) /\ UNCHANGED scanning
    /\ UNCHANGED <<support_devices, idx, discovered, j, dres, flog, acquired>>
    /\ UNCHANGED <<sessVars, device_address>>

\* time::sleep(Duration::from_secs(5)).await
LocSleep ==
    /\ fpc = "loc_sleep"
    /\ LocProceed("loc_peripherals")
    /\ UNCHANGED <<support_devices, idx, discovered, j, scanning, dres, flog,
                   acquired>>
    /\ UNCHANGED <<sessVars, device_address>>

\* let peripherals = adapter.peripherals().await?
\* The adapter enumerates one of the lists it can.
LocPeripherals ==
    /\ fpc = "loc_peripherals"
    /\ \/ \E ps \in Discoverable :
            /\ discovered' = ps
            /\ j' = 1
            /\ LocProceed("loc_for")
       \/ LocReturn(NotLocated("Bluetooth"))
            /\ UNCHANGED <<discovered, j>>
    /\ UNCHANGED <<support_devices, idx, scanning, dres, flog, acquired>>
    /\ UNCHANGED <<sessVars, device_address>>

\* if let Some(props) = properties { if let Some(name) = props.local_name {
\*     if name == device_name
NameIs(peripheral, name) ==
    /\ peripheral.local_name # NoProperties
    /\ peripheral.local_name # NoLocalName
    /\ peripheral.local_name = name

\* A plausible slip: the loop keeps going after a match, so that the last
\* peripheral with the name is taken.
LocPropertiesTakesLast ==
    /\ fpc = "loc_for"
    /\ j <= Len(discovered)
    /\ \/ IF NameIs(discovered[j], device_name)
          THEN /\ LocProceed("loc_stop_scan")
               /\ j' = CHOOSE k \in j..Len(discovered) :
                         /\ NameIs(discovered[k], device_name)
                         /\ \A m \in (k + 1)..Len(discovered) :
                                ~NameIs(discovered[m], device_name)
          ELSE /\ LocProceed("loc_for")
               /\ j' = j + 1
       \/ LocReturn(NotLocated("Bluetooth")) /\ UNCHANGED j
    /\ UNCHANGED <<support_devices, idx, discovered, scanning, dres, flog,
                   acquired>>
    /\ UNCHANGED <<sessVars, device_address>>

\* One iteration of `for peripheral in peripherals`:
\* let properties = peripheral.properties().await?, and the test of its name.
LocProperties ==
    /\ fpc = "loc_for"
    /\ j <= Len(discovered)
    /\ \/ IF NameIs(discovered[j], device_name)
          THEN /\ LocProceed("loc_stop_scan")
               /\ UNCHANGED j
          ELSE /\ LocProceed("loc_for")
               /\ j' = j + 1
       \/ LocReturn(NotLocated("Bluetooth")) /\ UNCHANGED j
    /\ UNCHANGED <<support_devices, idx, discovered, scanning, dres, flog,
                   acquired>>
    /\ UNCHANGED <<sessVars, device_address>>

\* The for loop has run out of peripherals: Err(Error::DeviceNotFound).  The
\* scan is left running.
LocNotFound ==
    /\ fpc = "loc_for"
    /\ j > Len(discovered)
    /\ LocReturn(NotLocated("DeviceNotFound"))
    /\ UNCHANGED <<support_devices, idx, discovered, j, scanning, dres, flog,
                   acquired>>
    /\ UNCHANGED <<sessVars, device_address>>

\* let address = props.address.to_string(); adapter.stop_scan().await?;
\* return Ok(address)
\* After a failed stop_scan the adapter may or may not still be scanning.
LocStopScan ==
    /\ fpc = "loc_stop_scan"
    /\ \/ /\ LocReturn(Located(discovered[j].address))
          /\ scanning' = FALSE
       \/ /\ LocReturn(NotLocated("Bluetooth"))
          /\ scanning' \in BOOLEAN
    /\ UNCHANGED <<support_devices, idx, discovered, j, dres, flog, acquired>>
    /\ UNCHANGED <<sessVars, device_address>>

get_device_address ==
    \/ LocManager
    \/ LocAdapters
    \/ LocStartScan
    \/ LocSleep
    \/ LocPeripherals
    \/ LocProperties
    \/ LocNotFound
    \/ LocStopScan

\* ----------------------------------------------------- detect_monitor

HeartRateMonitorNotFound == Err("HeartRateMonitorNotFound", "detect")

\* for device_name in SUPPORT_DEVICES { match get_device_address(device_name)
DetectFor ==
    /\ fpc = "for"
    /\ idx < Len(support_devices)
    /\ idx' = idx + 1
    /\ fpc' = "loc_manager"
    /\ discovered' = <<>>
    /\ j' = 0
    /\ UNCHANGED <<support_devices, scanning, lres, dres, flog, located,
                   acquired>>
    /\ UNCHANGED <<sessVars, device_address>>

\* The allow-list is exhausted: Err(Error::HeartRateMonitorNotFound)
DetectEnd ==
    /\ fpc = "for"
    /\ idx = Len(support_devices)
    /\ dres' = HeartRateMonitorNotFound
    /\ fpc' = "returned"
    /\ UNCHANGED <<support_devices, idx, discovered, j, scanning, lres, flog,
                   located, acquired>>
    /\ UNCHANGED <<sessVars, device_address>>

\* A plausible slip: `?` on get_device_address, the first failure returned.
DetectMatchErrPropagates ==
    /\ fpc = "match"
    /\ lres.kind # "Ok"
    /\ dres' = Err(lres.kind, "get_device_address")
    /\ fpc' = "returned"
    /\ UNCHANGED <<support_devices, idx, discovered, j, scanning, lres, flog,
                   located, acquired>>
    /\ UNCHANGED <<sessVars, device_address>>

\* Err(e) => eprintln!("Device not found: {device_name} - Error: {e}"),
\* and the next iteration.
DetectMatchErr ==
    /\ fpc = "match"
    /\ lres.kind # "Ok"
    /\ flog' = Append(flog, [name |-> device_name, error |-> lres])
    /\ fpc' = "for"
    /\ UNCHANGED <<support_devices, idx, discovered, j, scanning, lres, dres,
                   located, acquired>>
    /\ UNCHANGED <<sessVars, device_address>>

\* A plausible slip: a failure to create the manager handled like a failed
\* locate, reported and followed by the next candidate.
DetectMatchOkSkips ==
    /\ fpc = "match"
    /\ lres.kind = "Ok"
    /\ acquired' = Append(acquired, device_name)
    /\ \/ /\ fpc' = "det_adapters"
          /\ UNCHANGED flog
       \/ /\ fpc' = "for"
          /\ flog' = Append(flog, [name |-> device_name,
                                   error |-> NotLocated("Bluetooth")])
    /\ UNCHANGED <<support_devices, idx, discovered, j, scanning, lres, dres,
                   located>>
    /\ UNCHANGED <<sessVars, device_address>>

\* Ok(device_address) => { let manager = Manager::new().await?
DetectMatchOk ==
    /\ fpc = "match"
    /\ lres.kind = "Ok"
    /\ acquired' = Append(acquired, device_name)
    /\ \/ /\ fpc' = "det_adapters"
          /\ UNCHANGED dres
       \/ /\ fpc' = "returned"
          /\ dres' = Err("Bluetooth", "det_manager")
    /\ UNCHANGED <<support_devices, idx, discovered, j, scanning, lres, flog,
                   located>>
    /\ UNCHANGED <<sessVars, device_address>>

\* A plausible slip: the monitor built without `return`, the loop going on to
\* the next name.
DetectAdaptersNoReturn ==
    /\ fpc = "det_adapters"
    /\ \/ /\ device_address' = lres.address
          /\ fpc' = "for"
          /\ UNCHANGED dres
       \/ /\ dres' \in {Err("Bluetooth", "det_adapters"),
                        Err("BluetoothAdaptersNotFound", "det_adapters")}
          /\ fpc' = "returned"
          /\ UNCHANGED device_address
    /\ UNCHANGED <<support_devices, idx, discovered, j, scanning, lres, flog,
                   located, acquired>>
    /\ UNCHANGED sessVars

\* manager.adapters().await?, .into_iter().next()
\*     .ok_or(Error::BluetoothAdaptersNotFound)?, then
\* HeartRateMonitor::new(adapter, device_address) and return Ok(monitor)
DetectAdapters ==
    /\ fpc = "det_adapters"
    /\ \/ /\ device_address' = lres.address
          /\ dres' = MonitorReturned
       \/ /\ dres' \in {Err("Bluetooth", "det_adapters"),
                        Err("BluetoothAdaptersNotFound", "det_adapters")}
          /\ UNCHANGED device_address
    /\ fpc' = "returned"
    /\ UNCHANGED <<support_devices, idx, discovered, j, scanning, lres, flog,
                   located, acquired>>
    /\ UNCHANGED sessVars

detect_monitor ==
    \/ DetectFor
    \/ DetectEnd
    \/ DetectMatchErr
    \/ DetectMatchOk
    \/ DetectAdapters

\* ------------------------------------------------------- specifications

Next == Task \/ Transport \/ Consumer

Spec == Init /\ [][Next]_vars

\* The runtime keeps polling a spawned task that can make a step; nothing
\* obliges the transport to notify or the consumer to receive.
FairInit == InitWith(FairMaxFail, FairMaxNotif)

FairSpec == FairInit /\ [][Next]_vars /\ WF_vars(Task)

\* The decoder on every payload of at most MaxLen sample bytes: the session is
\* streaming in its first cycle and the transport has delivered one
\* notification.
DecInit ==
    /\ pc = "next"
    /\ cycle = 1
    /\ result = NoResult
    /\ connOpen = TRUE
    /\ subscribed = TRUE
    /\ \E u \in {HeartRateUuid, OtherUuid} :
         \E p \in DecPayloads :
            stream = <<Notification(u, p)>>
    /\ streamEnded = FALSE
    /\ value = 0
    /\ chan = <<>>
    /\ rxOpen = TRUE
    /\ senderAlive = TRUE
    /\ received = <<>>
    /\ rxDone = FALSE
    /\ closedAt = "open"
    /\ errs = <<>>
    /\ matched = <<>>
    /\ nPushed = 0
    /\ nScan = 1
    /\ nConnect = 1
    /\ nSubscribe = 1
    /\ nDisconnect = 0
    /\ nBackoff = 0
    /\ slept = ScanWindow
    /\ brk = NoBrk
    /\ failBudget = 0
    /\ notifBudget = 0
    /\ device_address = SessionAddress
    /\ DetectReturned(SessionAddress)
    /\ visible = SessionVisible
    /\ seen = <<Peripheral(SessionAddress, "X")>>
    /\ device = Peripheral(SessionAddress, "X")
    /\ touched = {SessionAddress}

DecNext == NextSome \/ SendOk

DecSpec == DecInit /\ [][DecNext]_vars

\* The program of main.rs: the consumer is the while-let loop on recv(), which
\* holds the receiver until recv() returns None, so no send finds the channel
\* closed.  The runtime keeps polling both the spawned task and main.
MainNext ==
    \/ StartScan
    \/ ScanSleep
    \/ FindDevice
    \/ Connect
    \/ FindChar
    \/ Subscribe
    \/ Notifications
    \/ NextSome
    \/ NextNone
    \/ SendOk
    \/ Disconnect
    \/ MatchOk
    \/ MatchErr
    \/ Transport
    \/ Recv
    \/ RecvNone

MainSpec ==
    FairInit /\ [][MainNext]_vars /\ WF_vars(Task) /\ WF_vars(Recv \/ RecvNone)

\* The channel close to full: the session is streaming in its first cycle, has
\* pushed Capacity - CapSlack readings of 72, and the consumer has taken none.
CapPayloads == {<<0, 72>>, <<1, 44, 1>>}

CapInit ==
    /\ pc = "next"
    /\ cycle = 1
    /\ result = NoResult
    /\ connOpen = TRUE
    /\ subscribed = TRUE
    /\ stream = <<>>
    /\ streamEnded = FALSE
    /\ value = 72
    /\ chan = [i \in 1..(Capacity - CapSlack) |-> 72]
    /\ rxOpen = TRUE
    /\ senderAlive = TRUE
    /\ received = <<>>
    /\ rxDone = FALSE
    /\ closedAt = "open"
    /\ errs = <<>>
    /\ matched = [i \in 1..(Capacity - CapSlack) |-> <<0, 72>>]
    /\ nPushed = Capacity - CapSlack
    /\ nScan = 1
    /\ nConnect = 1
    /\ nSubscribe = 1
    /\ nDisconnect = 0
    /\ nBackoff = 0
    /\ slept = ScanWindow
    /\ brk = NoBrk
    /\ failBudget = 0
    /\ notifBudget = CapNotif
    /\ device_address = SessionAddress
    /\ DetectReturned(SessionAddress)
    /\ visible = SessionVisible
    /\ seen = <<Peripheral(SessionAddress, "X")>>
    /\ device = Peripheral(SessionAddress, "X")
    /\ touched = {SessionAddress}

\* The streaming loop, the transport's notifications and the consumer.
CapNext ==
    \/ NextSome
    \/ SendOk
    \/ SendClosed
    \/ \E p \in CapPayloads : Deliver(Notification(HeartRateUuid, p))
    \/ Recv
    \/ DropReceiver

CapSpec == CapInit /\ [][CapNext]_vars

\* The session bound to either of two addresses, with the adapter enumerating
\* any list of at most MaxSeen peripherals with these addresses.
Addresses == {"A1", "A2"}
BoundAddresses == {"A1", "A2"}

AddrInit ==
    /\ pc = "start_scan"
    /\ cycle = 1
    /\ result = NoResult
    /\ connOpen = FALSE
    /\ subscribed = FALSE
    /\ stream = <<>>
    /\ streamEnded = FALSE
    /\ value = 0
    /\ chan = <<>>
    /\ rxOpen = TRUE
    /\ senderAlive = TRUE
    /\ received = <<>>
    /\ rxDone = FALSE
    /\ closedAt = "open"
    /\ errs = <<>>
    /\ matched = <<>>
    /\ nPushed = 0
    /\ nScan = 0
    /\ nConnect = 0
    /\ nSubscribe = 0
    /\ nDisconnect = 0
    /\ nBackoff = 0
    /\ slept = 0
    /\ brk = NoBrk
    /\ failBudget = AddrMaxFail
    /\ notifBudget = AddrMaxNotif
    /\ device_address \in BoundAddresses
    /\ DetectReturned(device_address)
    /\ visible = SeqsUpTo({Peripheral(a, "X") : a \in Addresses}, MaxSeen)
    /\ seen = <<>>
    /\ device = NoDevice
    /\ touched = {}

AddrSpec == AddrInit /\ [][Next]_vars

\* detect_monitor on each of the allow-lists, before any session exists.
FactoryInit ==
    /\ pc = "start_scan"
    /\ cycle = 1
    /\ result = NoResult
    /\ connOpen = FALSE
    /\ subscribed = FALSE
    /\ stream = <<>>
    /\ streamEnded = FALSE
    /\ value = 0
    /\ chan = <<>>
    /\ rxOpen = TRUE
    /\ senderAlive = TRUE
    /\ received = <<>>
    /\ rxDone = FALSE
    /\ closedAt = "open"
    /\ errs = <<>>
    /\ matched = <<>>
    /\ nPushed = 0
    /\ nScan = 0
    /\ nConnect = 0
    /\ nSubscribe = 0
    /\ nDisconnect = 0
    /\ nBackoff = 0
    /\ slept = 0
    /\ brk = NoBrk
    /\ failBudget = 0
    /\ notifBudget = 0
    /\ device_address = "none"
    /\ visible = SessionVisible
    /\ seen = <<>>
    /\ device = NoDevice
    /\ touched = {}
    /\ support_devices \in AllowLists
    /\ fpc = "for"
    /\ idx = 0
    /\ discovered = <<>>
    /\ j = 0
    /\ scanning = FALSE
    /\ lres = NoLocate
    /\ dres = NoResult
    /\ flog = <<>>
    /\ located = <<>>
    /\ acquired = <<>>

FactoryNext == detect_monitor \/ get_device_address

FactorySpec == FactoryInit /\ [][FactoryNext]_vars

\* ---------------------------------------------------------- properties

DisconnectFailed == Err("Bluetooth", "disconnect")

\* The consumer dropped the receiver while the session was streaming, and a
\* later send found the channel closed.
BrokeMidStream == brk.cycle > 0 /\ closedAt = "streaming"

\* C1, as stated: after the consumer closes the channel mid-stream and the
\* loop breaks on the failed send, there is exactly one disconnect and never
\* another scan, whatever the outcome of that disconnect.
C1_CleanExitWhateverDisconnectGives ==
    BrokeMidStream =>
        /\ nScan = brk.nScan
        /\ nDisconnect <= brk.nDisconnect + 1
        /\ pc \in {"disconnect", "match", "done"}

\* C1, amended: after the break on the failed send the loop issues one
\* disconnect; if it succeeds the loop terminates with no further scan and no
\* further disconnect; otherwise the failed disconnect is the reported error of
\* that cycle (and the loop retries).
C1_CleanExitWhenDisconnectSucceeds ==
    BrokeMidStream =>
        \/ /\ pc = "disconnect"
           /\ cycle = brk.cycle
           /\ nScan = brk.nScan
           /\ nDisconnect = brk.nDisconnect
        \/ /\ pc \in {"match", "done"}
           /\ result = OkResult
           /\ cycle = brk.cycle
           /\ nScan = brk.nScan
           /\ nDisconnect = brk.nDisconnect + 1
        \/ /\ pc = "match"
           /\ result = DisconnectFailed
           /\ cycle = brk.cycle
           /\ nDisconnect = brk.nDisconnect + 1
        \/ /\ Len(errs) > brk.errs
           /\ errs[brk.errs + 1] = DisconnectFailed

C1_Witness ==
    /\ BrokeMidStream
    /\ pc = "done"
    /\ nDisconnect = brk.nDisconnect + 1
    /\ nScan = brk.nScan

\* C2, as stated: once the consumer has closed the channel, the loop
\* eventually terminates, from whatever state it is in.
C2_ProducerEventuallyStops == (~rxOpen) ~> TaskEnded

\* C2, amended: once the consumer is gone nothing more is pushed, the send
\* attempted after that ends the streaming loop and leads to disconnect, and
\* from that send on the loop terminates unless that disconnect fails.
C2_ProducerStopsAtNextSend ==
    /\ [][~rxOpen =>
            /\ nPushed' = nPushed
            /\ chan' = <<>>
            /\ (pc = "send" /\ pc' # pc) => pc' = "disconnect"]_vars
    /\ (~rxOpen /\ pc = "send") ~>
            /\ brk.cycle > 0
            /\ \/ pc = "done"
               \/ /\ Len(errs) > brk.errs
                  /\ errs[brk.errs + 1] = DisconnectFailed

C2_Witness ==
    /\ ~rxOpen
    /\ closedAt = "elsewhere"
    /\ brk.cycle > 0
    /\ pc = "done"

\* C3: the session never issues connect while a connection opened by an
\* earlier cycle has not been disconnected.
C3_AtMostOneConnection == [][nConnect' # nConnect => ~connOpen]_vars

\* What the consumer has been handed or will be: the values received, those
\* queued, and the one being sent.
Output == received \o chan \o (IF pc = "send" THEN <<value>> ELSE <<>>)

InOrder(out, payloads) ==
    /\ Len(out) = Len(payloads)
    /\ \A i \in 1..Len(out) : out[i] = parse_heart_rate(payloads[i]).value

\* C4: while the consumer holds the receiver, the values handed to it are the
\* decoded heart-rate notifications taken off the stream, one for one and in
\* order.
C4_OrderedExactlyOnce == rxOpen => InOrder(Output, matched)

\* The ordering of C4 for the runs in which the decoder has not panicked.
OrderedUnlessPanicked == (rxOpen /\ pc # "panicked") => InOrder(Output, matched)

\* C5: if the background task has terminated, its last cycle went through
\* disconnect and returned without error.
C5_StopsOnlyAfterCleanCycle ==
    TaskEnded => (pc = "done" /\ result = OkResult /\ nDisconnect > 0)

\* C6: every raised error is reported and followed by exactly one backoff
\* sleep and a restart at the scan; the loop never stops because of an error.
C6_RetryAfterEveryError ==
    /\ [][(pc = "match" /\ result.kind # "Ok" /\ pc' # pc) =>
            /\ errs' = Append(errs, result)
            /\ slept' = slept + Backoff
            /\ nBackoff' = nBackoff + 1
            /\ cycle' = cycle + 1
            /\ nScan' = nScan
            /\ pc' = "start_scan"]_vars
    /\ [][(result' # result /\ result'.kind # "Ok") => pc' = "match"]_vars
    /\ [](pc = "done" => result = OkResult)
    /\ [](nBackoff = Len(errs))
    /\ [](cycle = Len(errs) + 1)

C6_Witness ==
    /\ Len(errs) = MaxFail
    /\ pc = "start_scan"
    /\ nBackoff = MaxFail

\* C7: a cycle that returns Ok ends the loop, and once the loop has ended no
\* scan, connect, subscribe, disconnect or backoff is performed.
C7_CleanCycleEndsLoop ==
    /\ [][(pc = "match" /\ result.kind = "Ok" /\ pc' # pc) => pc' = "done"]_vars
    /\ [][pc = "done" =>
            /\ pc' = "done"
            /\ UNCHANGED <<cycle, nScan, nConnect, nSubscribe, nDisconnect,
                           nBackoff, slept>>]_vars

C7_Witness ==
    /\ pc = "done"
    /\ rxOpen
    /\ brk = NoBrk
    /\ nPushed > 0

FirstConnectFailed == Len(errs) >= 1 /\ errs[1] = Err("Bluetooth", "connect")

\* C8: when connect fails in the first cycle and the second cycle pushes
\* values, exactly one backoff interval has been slept (between the two scan
\* windows); and a value is pushed only in a cycle whose subscribe succeeded.
C8_ValuesOnlyAfterBackoffAndSubscribe ==
    /\ []((FirstConnectFailed /\ cycle = 2 /\ nPushed > 0) =>
            /\ nBackoff = 1
            /\ slept = ScanWindow + Backoff + ScanWindow)
    /\ []((FirstConnectFailed /\ cycle = 1) => nPushed = 0)
    /\ [][nPushed' # nPushed => (subscribed /\ nSubscribe > 0)]_vars

C8_Witness ==
    /\ FirstConnectFailed
    /\ cycle = 2
    /\ nPushed > 0
    /\ Len(received) > 0

\* C9: while the background task is running, in any cycle, it holds the
\* sending half and the consumer has not seen the channel closed.
C9_ChannelOpenWhileRunning == ~TaskEnded => (senderAlive /\ ~rxDone)

C9_Witness ==
    /\ cycle = 3
    /\ pc = "send"
    /\ rxOpen
    /\ Len(received) > 0

\* C10: the decoder returns a value for every payload; it never aborts.
C10_DecoderNeverFails == pc # "panicked"

\* The payload decoded in a run of DecSpec is matched[1].

\* C16: a payload of at least 3 bytes whose flags byte has bit 0 set decodes
\* to its byte 1, the low byte of the little-endian 16-bit value.
C16_SixteenBitLowByte ==
    (matched # <<>> /\ Len(matched[1]) >= 3 /\ matched[1][1] % 2 = 1) =>
        /\ pc # "panicked"
        /\ Output = <<matched[1][2]>>

C16_Witness ==
    /\ matched = << <<1, 44, 1>> >>
    /\ chan = <<44>>

\* C17: a payload of at least 2 bytes whose flags byte has bit 0 clear decodes
\* to its byte 1, whatever the other flag bits and the bytes after it.
C17_EightBitUnchanged ==
    (matched # <<>> /\ Len(matched[1]) >= 2 /\ matched[1][1] % 2 = 0) =>
        /\ pc # "panicked"
        /\ Output = <<matched[1][2]>>

C17_Witness ==
    /\ matched = << <<2, 200>> >>
    /\ chan = <<200>>

\* C18: a payload of length 0 or 1 decodes to 0, and that 0 is sent and queued
\* like any other value.
C18_ShortPayloadIsZero ==
    (matched # <<>> /\ Len(matched[1]) < 2) =>
        \/ pc = "send" /\ value = 0 /\ chan = <<>>
        \/ pc = "next" /\ chan = <<0>> /\ nPushed = 1

C18_Witness ==
    /\ matched = << <<1>> >>
    /\ pc = "next"
    /\ chan = <<0>>

\* C15: the channel never holds more than Capacity values; while it is full
\* the producer stays at its send with the same value, nothing is pushed, and
\* the queue changes only by the consumer taking its head or closing; no value
\* is dropped or overwritten.
C15_BoundedFifoProducerWaits ==
    /\ [](Len(chan) <= Capacity)
    /\ [][(pc = "send" /\ rxOpen /\ Len(chan) = Capacity) =>
            /\ pc' = "send"
            /\ value' = value
            /\ nPushed' = nPushed
            /\ \/ chan' = chan
               \/ chan' = Tail(chan) /\ received' = Append(received, Head(chan))
               \/ ~rxOpen']_vars
    /\ [](rxOpen => InOrder(Output, matched))

C15_Witness ==
    /\ pc = "send"
    /\ rxOpen
    /\ Len(chan) = Capacity
    /\ Len(received) = 1
    /\ nPushed = Capacity + 1

\* C19: connect, subscribe and disconnect are only ever issued on the
\* peripheral with the bound address; when the enumeration holds no peripheral
\* with that address the cycle returns DeviceNotFound and issues no connect;
\* and the bound address never changes.
C19_OnlyTheBoundAddress ==
    /\ [](touched \subseteq {device_address})
    /\ [](device = NoDevice \/ device.address = device_address)
    /\ [][device_address' = device_address]_vars
    /\ [][(/\ pc = "peripherals"
           /\ pc' # pc
           /\ result' # Err("Bluetooth", "peripherals")
           /\ ~HasAddress(seen', device_address)) =>
                /\ result' = Err("DeviceNotFound", "find_device")
                /\ pc' = "match"
                /\ nConnect' = nConnect]_vars
    /\ [][nConnect' # nConnect =>
            /\ HasAddress(seen, device_address)
            /\ device.address = device_address]_vars

C19_Witness ==
    /\ errs # <<>>
    /\ errs[1] = Err("DeviceNotFound", "find_device")
    /\ Len(seen) = 2
    /\ seen[1].address # device_address
    /\ touched = {device_address}
    /\ nSubscribe = 1
    /\ nDisconnect = 1

\* C20: under main's consumer, once the loop has exited after a clean cycle
\* the values received and still queued are exactly the values pushed, in the
\* order of their notifications; the consumer then receives them all, sees the
\* channel closed and terminates; and it never terminates while the task is
\* still running.
C20_ConsumerDrainsThenEnds ==
    /\ [](rxDone => TaskEnded)
    /\ [](pc = "done" =>
            /\ Len(received) + Len(chan) = nPushed
            /\ InOrder(received \o chan, matched))
    /\ []((rxDone /\ pc = "done") =>
            /\ chan = <<>>
            /\ Len(received) = nPushed
            /\ InOrder(received, matched))
    /\ (pc = "done") ~> rxDone

C20_Witness ==
    /\ pc = "done"
    /\ rxDone
    /\ errs # <<>>
    /\ nPushed = 2
    /\ received = <<72, 44>>

\* The locates that have returned so far, and the one that returned last.
NoLocateSucceeded == \A i \in 1..Len(located) : located[i].result.kind # "Ok"
LastLocate == located[Len(located)]
LastLocateSucceeded == located # <<>> /\ LastLocate.result.kind = "Ok"

\* What the re-acquisition of the adapter in detect_monitor can return.
AcquireErrors ==
    {Err("Bluetooth", "det_manager"), Err("Bluetooth", "det_adapters"),
     Err("BluetoothAdaptersNotFound", "det_adapters")}

\* C11, as stated: detect_monitor returns an error only when every locate has
\* failed, that error is HeartRateMonitorNotFound, and once a locate has
\* succeeded it returns a session.
C11_OnlyNotFoundSurfaces ==
    fpc = "returned" =>
        /\ dres.kind # "Ok" =>
              (dres = HeartRateMonitorNotFound /\ NoLocateSucceeded)
        /\ ~NoLocateSucceeded => dres.kind = "Ok"

\* C11, amended: detect_monitor returns HeartRateMonitorNotFound exactly when
\* every locate has failed; when a locate has succeeded it returns a session,
\* or, if re-acquiring the adapter fails, that adapter or transport error and
\* no session.
C11_NotFoundOrAcquireError ==
    fpc = "returned" =>
        /\ dres \in {MonitorReturned, HeartRateMonitorNotFound} \cup AcquireErrors
        /\ dres = HeartRateMonitorNotFound <=> NoLocateSucceeded
        /\ dres \in AcquireErrors =>
              /\ LastLocateSucceeded
              /\ acquired = <<LastLocate.name>>
              /\ device_address = "none"

C11_Witness ==
    /\ fpc = "returned"
    /\ support_devices = <<"X", "Y">>
    /\ Len(located) = 1
    /\ located[1].result = Located("A1")
    /\ dres = Err("BluetoothAdaptersNotFound", "det_adapters")
    /\ device_address = "none"

\* C12: the names located are a prefix of the allow-list, in order; no name is
\* located after one whose locate succeeded, detect_monitor going from that
\* locate to its return; a session returned is bound to the address that
\* locate resolved; and an adapter is acquired, and a session constructed,
\* only for the name whose locate succeeded.
C12_FirstSuccessInOrder ==
    /\ Len(located) <= Len(support_devices)
    /\ \A i \in 1..Len(located) : located[i].name = support_devices[i]
    /\ \A i \in 1..(Len(located) - 1) : located[i].result.kind # "Ok"
    /\ LastLocateSucceeded =>
          /\ fpc \in {"match", "det_adapters", "returned"}
          /\ idx = Len(located)
    /\ dres.kind = "Ok" =>
          /\ fpc = "returned"
          /\ LastLocateSucceeded
          /\ device_address = LastLocate.result.address
    /\ device_address # "none" => dres.kind = "Ok"
    /\ acquired # <<>> =>
          /\ LastLocateSucceeded
          /\ acquired = <<LastLocate.name>>

C12_Witness ==
    /\ fpc = "returned"
    /\ support_devices = <<"X", "Y">>
    /\ Len(located) = 2
    /\ located[1].result.kind = "DeviceNotFound"
    /\ located[2] = [name |-> "Y", result |-> Located("A3")]
    /\ acquired = <<"Y">>
    /\ dres = MonitorReturned
    /\ device_address = "A3"

\* C13: when detect_monitor has returned and no locate succeeded, every name
\* of the allow-list has been located once, in order, each failure has been
\* reported with its name and error, no adapter was acquired for a session,
\* and the result is HeartRateMonitorNotFound.
C13_AllFailGivesNotFound ==
    (fpc = "returned" /\ NoLocateSucceeded) =>
        /\ dres = HeartRateMonitorNotFound
        /\ Len(located) = Len(support_devices)
        /\ \A i \in 1..Len(located) : located[i].name = support_devices[i]
        /\ flog = [i \in 1..Len(located) |->
                      [name |-> located[i].name, error |-> located[i].result]]
        /\ acquired = <<>>
        /\ device_address = "none"

C13_Witness ==
    /\ fpc = "returned"
    /\ dres = HeartRateMonitorNotFound
    /\ support_devices = <<"X", "Y">>
    /\ Len(located) = 2
    /\ located[1].result.kind = "BluetoothAdaptersNotFound"
    /\ located[2].result.kind = "DeviceNotFound"

\* C14: when get_device_address returns an address, it is the address of the
\* first enumerated peripheral whose local name is the name asked for, and
\* the scan has been stopped; when it returns DeviceNotFound, no enumerated
\* peripheral has that name; and anything else it returns is the error of a
\* transport call that failed or of the missing adapter.
C14_FirstExactNameMatch ==
    fpc = "match" =>
        /\ lres.kind = "Ok" =>
              /\ \E i \in 1..Len(discovered) :
                    /\ discovered[i].local_name = device_name
                    /\ \A k \in 1..(i - 1) :
                          discovered[k].local_name # device_name
                    /\ lres.address = discovered[i].address
              /\ ~scanning
        /\ lres.kind = "DeviceNotFound" =>
              /\ \A i \in 1..Len(discovered) :
                    discovered[i].local_name # device_name
              /\ j = Len(discovered) + 1
        /\ lres.kind \in {"Ok", "DeviceNotFound", "Bluetooth",
                          "BluetoothAdaptersNotFound"}

C14_Witness ==
    /\ fpc = "match"
    /\ device_name = "X"
    /\ discovered = <<Peripheral("A2", "X"), Peripheral("A1", "X")>>
    /\ lres = Located("A2")
    /\ ~scanning

====
